---- MODULE Spec2Model ----
(***************************************************************************)
(* Tremor filter (HIDArduino): the rolling sample window, the tremor       *)
(* classifiers, the exponential smoothing filter and the stabilization     *)
(* controller of the acquisition variants                                  *)
(*   "enhanced"  enhanced_tremor_filter.py   (polling thread, 5 criteria)  *)
(*   "listener"  Joystick/mouse_filter.py    (pynput on_move callback)     *)
(*   "serial"    tremor_filter.py            (records from a serial link)  *)
(* together with the command thread (toggle / quit) and the status thread. *)
(* Spec is the running controller; ClassifierSpec and SmoothSpec drive the *)
(* enhanced classifier and the smoothing filter alone over drawn inputs.   *)
(*                                                                         *)
(* Numbers.  Python floats are modelled as exact rationals <<n, d>> in     *)
(* lowest terms with d > 0.  Motion is along the x axis (y stays 0), so    *)
(* every vector magnitude sqrt(dx^2+dy^2) is an integer and every          *)
(* threshold comparison of the classifiers is decided exactly.  Time is    *)
(* counted in ticks of 1/10 second.                                        *)
(***************************************************************************)
EXTENDS Integers, Sequences, FiniteSets, TLC

VARIABLES
    variant,              \* which script is running
    cfg,                  \* configuration after main() parsed the arguments
    pace,                 \* environment: ticks between two samples of a run
    cursor,               \* the pointer position kept by the host, <<x, y>>
    position_history,     \* deque of <<x, y>>            (enhanced)
    delta_history,        \* deque of <<dx, dy>>          (enhanced)
    timestamp_history,    \* deque of time stamps         (enhanced)
    mouse_history,        \* deque of <<dx, dy>>          (listener, serial)
    tremor_detected,
    tremor_type,          \* the "+"-joined names, as a sequence; <<"None">>
    tremor_intensity,     \* rational
    stabilization_active,
    running,
    lock,                 \* "free" or the thread holding threading.Lock()
    last_x, last_y,       \* the module-level filter state, rationals
    last_real_x, last_real_y,
    now,                  \* the last value time.time() returned, in ticks
    mon,                  \* sample thread: pc and the locals of its loop
    cmd,                  \* command thread: pc
    stat,                 \* status thread: pc
    status_line,          \* status thread: status, mode, freq_info it read
    acquisition,          \* the hook, listener or serial port: "none" before
                          \* it is set up (and when polling), "held",
                          \* "released", "released twice"
    injected,             \* the pointer is where the last injection put it,
                          \* and that change of position is yet to be observed
    rx,                   \* history: the last malformed serial record
    fired,                \* history: criteria true in the last classification
    emit,                 \* history: the last position injection
    smooth,               \* history: the last call of the smoothing filter
    nsamples,             \* history: number of classifier calls so far
    ntoggles              \* history: number of 's' commands so far

vars == <<variant, cfg, pace, cursor, position_history, delta_history,
          timestamp_history, mouse_history, tremor_detected, tremor_type,
          tremor_intensity, stabilization_active, running, lock, last_x,
          last_y, last_real_x, last_real_y, now, mon, cmd, stat, acquisition,
          injected, rx, status_line, fired, emit, smooth, nsamples, ntoggles>>

----------------------------------------------------------------------------
(* Bounds of the model *)

\* capacity of the deques; the source builds them with maxlen = 25 (20 in
\* the simple variants), scaled down here
WindowCap == 4
\* number of classifier calls explored
MaxSamples == 5
\* number of 's' commands explored
MaxToggles == 2
\* FREQUENCY_WINDOW, 15 in the source (enhanced_tremor_filter.py:23), scaled
\* with the window: above the half-capacity gate, at most the capacity
FreqWindow == 3

\* where the pointer is when the script starts
Start == {1}
\* positions the user moves the pointer to
Targets == {0, 8}
\* ticks by which time.time() advances between two classified samples of
\* a run (a steady pace: 10 Hz, 2.5 Hz)
Paces == {1, 4}
\* number of calls of the smoothing filter explored on its own
MaxSmooth == 2

----------------------------------------------------------------------------
(* Exact rational arithmetic standing for Python float arithmetic *)

Abs(n) == IF n < 0 THEN -n ELSE n

RECURSIVE GCD(_, _)
GCD(a, b) == IF b = 0 THEN a ELSE GCD(b, a % b)

Rat(n, d) ==
    LET g == GCD(Abs(n), Abs(d))
        s == IF d < 0 THEN -1 ELSE 1
    IN  <<(s * n) \div g, (s * d) \div g>>

FromInt(i) == <<i, 1>>
RAdd(a, b) == Rat(a[1] * b[2] + b[1] * a[2], a[2] * b[2])
RSub(a, b) == Rat(a[1] * b[2] - b[1] * a[2], a[2] * b[2])
RMul(a, b) == Rat(a[1] * b[1], a[2] * b[2])
RLess(a, b) == a[1] * b[2] < b[1] * a[2]
RLeq(a, b) == a[1] * b[2] <= b[1] * a[2]
RMax(a, b) == IF RLess(a, b) THEN b ELSE a
Zero == FromInt(0)
One == FromInt(1)

\* int(f): Python truncates toward zero
PyInt(r) == IF r[1] >= 0 THEN r[1] \div r[2] ELSE -((-r[1]) \div r[2])

RECURSIVE SeqSum(_)
SeqSum(s) == IF s = <<>> THEN 0 ELSE Head(s) + SeqSum(Tail(s))

\* a list in place of the deque: nothing is ever evicted
DequeAppend_list(q, e, n) == Append(q, e)

\* collections.deque(maxlen=n).append(e)
DequeAppend(q, e, n) ==
    IF Len(q) >= n THEN Append(SubSeq(q, 2, Len(q)), e) ELSE Append(q, e)

----------------------------------------------------------------------------
(* Thresholds of enhanced_tremor_filter.py (module-level defaults) *)

SHAKE_THRESHOLD == <<17, 10>>
SMOOTHING_FACTOR == <<2, 5>>
MIN_TREMOR_FREQUENCY == <<3, 1>>
MAX_TREMOR_FREQUENCY == <<12, 1>>
DIRECTION_CHANGE_THRESHOLD == <<2, 5>>
STD_DEV_THRESHOLD == <<3, 4>>
JITTER_THRESHOLD == <<2, 1>>
MIN_ADAPTIVE_FACTOR == <<1, 10>>
\* the detection threshold set one criterion too low
SCORE_THRESHOLD_low == <<1, 10>>

\* tremor_detected = tremor_score > 0.3
SCORE_THRESHOLD == <<3, 10>>

\* the keys of tremor_scores, in dict order
CriteriaOrder == <<"Frequency", "Directional", "Magnitude", "Jitter", "Variance">>

----------------------------------------------------------------------------
(* Statistics of enhanced_tremor_filter.py *)

\* np.sqrt(x**2 + y**2); the radicand is a perfect square on the model's inputs
calculate_magnitude(x, y) ==
    LET n == x * x + y * y IN CHOOSE r \in 0..n : r * r = n

\* frequency in Hz from the time stamps ts (ticks of 1/10 s)
calculate_frequency(ts, FREQUENCY_WINDOW) ==
    IF Len(ts) < FREQUENCY_WINDOW THEN Zero
    ELSE LET recent_times == SubSeq(ts, Len(ts) - FREQUENCY_WINDOW + 1, Len(ts))
             intervals == [i \in 1..(Len(recent_times) - 1) |->
                              recent_times[i + 1] - recent_times[i]]
         IN  IF intervals = <<>> THEN Zero
             ELSE IF SeqSum(intervals) = 0 THEN Zero
             ELSE Rat(10 * Len(intervals), SeqSum(intervals))

\* the jitter taken from the first differences: the second pass is missing
calculate_jitter_first(positions) ==
    IF Len(positions) < 3 THEN Zero
    ELSE LET first_derivs == [i \in 1..(Len(positions) - 1) |->
                 calculate_magnitude(positions[i + 1][1] - positions[i][1],
                                     positions[i + 1][2] - positions[i][2])]
         IN  Rat(SeqSum(first_derivs), Len(first_derivs))

\* calculate_jitter(positions): the mean magnitude of the second differences
calculate_jitter(positions) ==
    IF Len(positions) < 3 THEN Zero
    ELSE LET first_derivs == [i \in 1..(Len(positions) - 1) |->
                 <<positions[i + 1][1] - positions[i][1],
                   positions[i + 1][2] - positions[i][2]>>]
             second_derivs == [i \in 1..(Len(first_derivs) - 1) |->
                 calculate_magnitude(first_derivs[i + 1][1] - first_derivs[i][1],
                                     first_derivs[i + 1][2] - first_derivs[i][2])]
         IN  IF second_derivs = <<>> THEN Zero
             ELSE Rat(SeqSum(second_derivs), Len(second_derivs))

----------------------------------------------------------------------------
(* The enhanced classifier, enhanced_tremor_filter.py detect_tremor *)

\* the pairs of consecutive deltas for which a cosine is appended to
\* directions (lines 126-137)
direction_pairs(deltas) ==
    {i \in 2..Len(deltas) :
        /\ (deltas[i - 1][1] # 0 \/ deltas[i - 1][2] # 0)
        /\ (deltas[i][1] # 0 \/ deltas[i][2] # 0)
        /\ calculate_magnitude(deltas[i - 1][1], deltas[i - 1][2])
             * calculate_magnitude(deltas[i][1], deltas[i][2]) # 0}

\* the ratio with the sign test reversed: the pairs that keep their direction
direction_change_ratio_kept(deltas) ==
    IF direction_pairs(deltas) # {}
    THEN Rat(Cardinality({i \in direction_pairs(deltas) :
                 deltas[i - 1][1] * deltas[i][1]
                     + deltas[i - 1][2] * deltas[i][2] > 0}),
             Cardinality(direction_pairs(deltas)))
    ELSE Zero

\* direction_changes / len(directions); cos_angle < 0 exactly when the dot
\* product is negative (lines 139-141)
direction_change_ratio(deltas) ==
    IF direction_pairs(deltas) # {}
    THEN Rat(Cardinality({i \in direction_pairs(deltas) :
                 deltas[i - 1][1] * deltas[i][1]
                     + deltas[i - 1][2] * deltas[i][2] < 0}),
             Cardinality(direction_pairs(deltas)))
    ELSE Zero

\* the five criteria on the window (deltas, positions, time stamps) for the
\* current delta (dx, dy): the set of the names whose score is 1.0
tremor_scores(deltas, positions, times, dx, dy) ==
    LET current_magnitude == calculate_magnitude(dx, dy)
        magnitudes == [i \in 1..Len(deltas) |->
                          calculate_magnitude(deltas[i][1], deltas[i][2])]
        n == Len(magnitudes)
        avg_magnitude == Rat(SeqSum(magnitudes), n)
        \* np.std squared: mean of squares minus square of the mean
        var_magnitude ==
            RSub(Rat(SeqSum([i \in 1..n |-> magnitudes[i] * magnitudes[i]]), n),
                 RMul(avg_magnitude, avg_magnitude))
        frequency == calculate_frequency(times, cfg.FREQUENCY_WINDOW)
        jitter == calculate_jitter(positions)
        frequency_tremor == /\ RLeq(MIN_TREMOR_FREQUENCY, frequency)
                            /\ RLeq(frequency, MAX_TREMOR_FREQUENCY)
        directional_tremor ==
            RLess(DIRECTION_CHANGE_THRESHOLD, direction_change_ratio(deltas))
        magnitude_tremor ==
            RLess(RMul(avg_magnitude, cfg.SHAKE_THRESHOLD), FromInt(current_magnitude))
        jitter_tremor == RLess(JITTER_THRESHOLD, jitter)
        \* cv = std / avg > t  iff  avg > 0 and var > t^2 * avg^2
        variance_tremor ==
            /\ RLess(Zero, avg_magnitude)
            /\ RLess(RMul(RMul(STD_DEV_THRESHOLD, STD_DEV_THRESHOLD),
                          RMul(avg_magnitude, avg_magnitude)), var_magnitude)
    IN  (IF frequency_tremor THEN {"Frequency"} ELSE {})
        \cup (IF directional_tremor THEN {"Directional"} ELSE {})
        \cup (IF magnitude_tremor THEN {"Magnitude"} ELSE {})
        \cup (IF jitter_tremor THEN {"Jitter"} ELSE {})
        \cup (IF variance_tremor THEN {"Variance"} ELSE {})

\* the join without its filter: every key of tremor_scores is reported
detected_types_all(scores) == CriteriaOrder

\* "+".join(t for t, v in tremor_scores.items() if v > 0), as the sequence of
\* the joined names
detected_types(scores) ==
    LET RECURSIVE Pick(_)
        Pick(i) == IF i > Len(CriteriaOrder) THEN <<>>
                   ELSE (IF CriteriaOrder[i] \in scores THEN <<CriteriaOrder[i]>>
                         ELSE <<>>) \o Pick(i + 1)
    IN  Pick(1)

\* the type reported whether or not the score passes the threshold
score_window_stale(scores) ==
    LET tremor_score == Rat(Cardinality(scores), 5)
        detected == RLess(SCORE_THRESHOLD, tremor_score)
    IN  [tremor_type |-> detected_types(scores),
         tremor_intensity |-> tremor_score,
         ret |-> detected, fired |-> scores]

\* lines 169-183 of detect_tremor: the score of the criteria that hold, the
\* detection, the intensity and the reported type
score_window(scores) ==
    LET tremor_score == Rat(Cardinality(scores), 5)
        detected == RLess(SCORE_THRESHOLD, tremor_score)
    IN  [tremor_type |-> IF detected THEN detected_types(scores) ELSE <<"None">>,
         tremor_intensity |-> tremor_score,
         ret |-> detected, fired |-> scores]

\* the gate that is always open
not_enough_data_never(n) == FALSE

\* "Not enough data yet": len(delta_history) < SAMPLE_SIZE // 2
not_enough_data(n) == n < cfg.SAMPLE_SIZE \div 2

\* detect_tremor(dx, dy, current_x, current_y) with time.time() = t: the
\* globals it leaves, its return value ret and the criteria that held
detect_tremor(dx, dy, current_x, current_y, t) ==
    LET deltas == DequeAppend(delta_history, <<dx, dy>>, cfg.maxlen)
        positions == DequeAppend(position_history, <<current_x, current_y>>, cfg.maxlen)
        times == DequeAppend(timestamp_history, t, cfg.maxlen)
        pushed == [delta_history |-> deltas, position_history |-> positions,
                   timestamp_history |-> times]
    IN  IF not_enough_data(Len(deltas))
        THEN pushed @@ [tremor_type |-> tremor_type,
                        tremor_intensity |-> tremor_intensity,
                        ret |-> FALSE, fired |-> {}]
        ELSE pushed @@ score_window(tremor_scores(deltas, positions, times, dx, dy))

----------------------------------------------------------------------------
(* The smoothing filter, enhanced_tremor_filter.py apply_adaptive_smoothing *)

\* the adaptive factor without its floor of 0.1
adaptive_factor_unclamped(intensity) ==
    IF cfg.ADAPTIVE_SMOOTHING
    THEN RMul(cfg.SMOOTHING_FACTOR, RSub(One, intensity))
    ELSE cfg.SMOOTHING_FACTOR

\* the blend factor for the global tremor_intensity = intensity
adaptive_factor(intensity) ==
    IF cfg.ADAPTIVE_SMOOTHING
    THEN RMax(MIN_ADAPTIVE_FACTOR,
              RMul(cfg.SMOOTHING_FACTOR, RSub(One, intensity)))
    ELSE cfg.SMOOTHING_FACTOR

\* filtered = f * v + (1 - f) * last
Blend(f, v, last) == RAdd(RMul(f, FromInt(v)), RMul(RSub(One, f), last))

\* the filter that stores what it returns: the state is truncated too
apply_adaptive_smoothing_stored(x, y, intensity) ==
    LET f == adaptive_factor(intensity)
        filtered_x == Blend(f, x, last_x)
        filtered_y == Blend(f, y, last_y)
    IN  [last_x |-> FromInt(PyInt(filtered_x)),
         last_y |-> FromInt(PyInt(filtered_y)),
         ret |-> <<PyInt(filtered_x), PyInt(filtered_y)>>, factor |-> f]

\* apply_adaptive_smoothing(x, y): the filter state it leaves and the pair
\* it returns; intensity is the global tremor_intensity at the call
apply_adaptive_smoothing(x, y, intensity) ==
    LET f == adaptive_factor(intensity)
        filtered_x == Blend(f, x, last_x)
        filtered_y == Blend(f, y, last_y)
    IN  [last_x |-> filtered_x, last_y |-> filtered_y,
         ret |-> <<PyInt(filtered_x), PyInt(filtered_y)>>, factor |-> f]

----------------------------------------------------------------------------
(* The classifier and the filter of the simple variants: detect_tremor and *)
(* apply_smoothing of Joystick/mouse_filter.py and tremor_filter.py        *)

\* detect_tremor(dx, dy) on mouse_history: the deque it leaves and is_tremor
detect_tremor_simple(dx, dy) ==
    LET hist == DequeAppend(mouse_history, <<dx, dy>>, cfg.maxlen)
    IN  IF not_enough_data(Len(hist))
        THEN [mouse_history |-> hist, ret |-> FALSE]
        ELSE LET current_magnitude == calculate_magnitude(dx, dy)
                 magnitudes == [i \in 1..Len(hist) |->
                                   calculate_magnitude(hist[i][1], hist[i][2])]
                 n == Len(magnitudes)
                 avg_magnitude == Rat(SeqSum(magnitudes), n)
                 var_magnitude ==
                     RSub(Rat(SeqSum([i \in 1..n |-> magnitudes[i] * magnitudes[i]]), n),
                          RMul(avg_magnitude, avg_magnitude))
                 \* a dot product is appended when the previous delta is not zero
                 directions == {i \in 2..Len(hist) :
                                   hist[i - 1][1] # 0 \/ hist[i - 1][2] # 0}
                 direction_changes == Cardinality({i \in directions :
                     hist[i - 1][1] * hist[i][1] + hist[i - 1][2] * hist[i][2] < 0})
             IN  [mouse_history |-> hist,
                  ret |->
                    \/ RLess(RMul(avg_magnitude, cfg.SHAKE_THRESHOLD),
                             FromInt(current_magnitude))
                    \/ RLess(RMul(FromInt(Cardinality(directions)), <<2, 5>>),
                             FromInt(direction_changes))
                    \* std > avg * 0.8  iff  var > (avg * 0.8)^2, both sides >= 0
                    \/ RLess(RMul(RMul(avg_magnitude, <<4, 5>>),
                                  RMul(avg_magnitude, <<4, 5>>)), var_magnitude)]

\* apply_smoothing(x, y): the filter state it leaves and the unrounded pair;
\* Joystick/mouse_filter.py returns int() of it, tremor_filter.py returns it
apply_smoothing(x, y) ==
    LET filtered_x == Blend(cfg.SMOOTHING_FACTOR, x, last_x)
        filtered_y == Blend(cfg.SMOOTHING_FACTOR, y, last_y)
    IN  [last_x |-> filtered_x, last_y |-> filtered_y,
         filtered |-> <<filtered_x, filtered_y>>,
         ret |-> <<PyInt(filtered_x), PyInt(filtered_y)>>,
         factor |-> cfg.SMOOTHING_FACTOR]

----------------------------------------------------------------------------
(* Initial state: the module-level globals of the script that is started *)

NoLocals == [current_x |-> 0, current_y |-> 0, dx |-> 0, dy |-> 0]
NoEmit == [n |-> 0, pos |-> <<0, 0>>, active |-> TRUE]
NoSmooth == [n |-> 0, raw |-> <<0, 0>>, prev |-> <<Zero, Zero>>,
             intensity |-> Zero, factor |-> Zero, ret |-> <<0, 0>>]

\* values of --samples: the size the deques were built with
SampleSizes == {WindowCap}

\* main() of enhanced_tremor_filter.py: the globals it sets from the arguments;
\* the deques keep the maxlen they were built with
EnhancedConfigs ==
    {[SAMPLE_SIZE |-> n, maxlen |-> WindowCap,
      FREQUENCY_WINDOW |-> FreqWindow, SHAKE_THRESHOLD |-> SHAKE_THRESHOLD,
      SMOOTHING_FACTOR |-> SMOOTHING_FACTOR, ADAPTIVE_SMOOTHING |-> TRUE] :
        n \in SampleSizes}

\* the globals of Joystick/mouse_filter.py and tremor_filter.py (SAMPLE_SIZE,
\* SHAKE_THRESHOLD 1.7, SMOOTHING_FACTOR 0.4); they have no adaptive mode and
\* no frequency window
SimpleConfigs ==
    {[SAMPLE_SIZE |-> WindowCap, maxlen |-> WindowCap,
      FREQUENCY_WINDOW |-> FreqWindow, SHAKE_THRESHOLD |-> SHAKE_THRESHOLD,
      SMOOTHING_FACTOR |-> SMOOTHING_FACTOR, ADAPTIVE_SMOOTHING |-> FALSE]}

\* the globals every script starts with
NoRecord == [line |-> "", logged |-> FALSE]

NoLine == [status |-> <<>>, mode |-> "", freq_info |-> <<>>]

InitGlobals ==
    /\ injected = FALSE
    /\ rx = NoRecord
    /\ status_line = NoLine
    /\ position_history = <<>>
    /\ delta_history = <<>>
    /\ timestamp_history = <<>>
    /\ mouse_history = <<>>
    /\ tremor_detected = FALSE
    /\ tremor_type = <<"None">>
    /\ tremor_intensity = Zero
    /\ stabilization_active = TRUE
    /\ running = TRUE
    /\ lock = "free"
    /\ last_x = Zero
    /\ last_y = Zero
    /\ last_real_x = 0
    /\ last_real_y = 0
    /\ now = 0
    /\ cmd = "input"
    /\ stat = "loop"
    /\ fired = {}
    /\ emit = NoEmit
    /\ smooth = NoSmooth
    /\ nsamples = 0
    /\ ntoggles = 0

Init ==
    /\ InitGlobals
    /\ cursor \in {<<p, 0>> : p \in Start}
    /\ \/ /\ variant = "enhanced"
          /\ cfg \in EnhancedConfigs
          /\ pace \in Paces
          /\ mon = [pc |-> "start"] @@ NoLocals
          /\ acquisition = "none"
       \/ /\ variant = "listener"
          /\ cfg \in SimpleConfigs
          /\ pace = 0
          /\ mon = [pc |-> "start"] @@ NoLocals
          /\ acquisition = "none"
       \/ /\ variant = "hook"
          /\ cfg \in SimpleConfigs
          /\ pace = 0
          /\ mon = [pc |-> "start"] @@ NoLocals
          /\ acquisition = "none"
       \/ /\ variant = "serial"
          /\ cfg \in SimpleConfigs
          /\ pace = 0
          /\ mon = [pc |-> "read"] @@ NoLocals
          /\ acquisition = "held"

window == <<position_history, delta_history, timestamp_history, mouse_history>>
classification == <<tremor_detected, tremor_type, tremor_intensity, fired>>
filter_state == <<last_x, last_y>>
last_real == <<last_real_x, last_real_y>>
config == <<variant, cfg, pace>>
history == <<emit, smooth, nsamples, ntoggles>>

\* the history of a position injection and of a call of the filter
Emitted(pos) == [n |-> emit.n + 1, pos |-> pos, active |-> stabilization_active]
Smoothed(x, y, intensity, s) ==
    [n |-> smooth.n + 1, raw |-> <<x, y>>, prev |-> <<last_x, last_y>>,
     intensity |-> intensity, factor |-> s.factor, ret |-> s.ret]

actual_movement_any(dx, dy) == TRUE

\* "if there's actual movement": dx != 0 or dy != 0 (line 239; lines 108 of
\* Joystick/mouse_filter.py and 158 of windows_mouse_filter_fixed.py)
actual_movement(dx, dy) == dx # 0 \/ dy # 0

----------------------------------------------------------------------------
(* The user moves the pointer (between two polls of the polling thread) *)

UserMove ==
    /\ variant = "enhanced"
    /\ mon.pc = "poll"
    /\ \E p \in Targets :
          /\ p # cursor[1]
          /\ cursor' = <<p, cursor[2]>>
    /\ injected' = FALSE
    /\ UNCHANGED <<config, rx, status_line, acquisition, window, classification, filter_state, last_real,
                   stabilization_active, running, lock, now, mon, cmd, stat,
                   history>>

----------------------------------------------------------------------------
(* enhanced_tremor_filter.py mouse_monitor, the polling thread *)

\* lines 220-223: last_real_x, last_real_y are the globals; last_x, last_y
\* assigned here are locals of mouse_monitor (not in its global statement)
M_Start ==
    /\ variant = "enhanced"
    /\ mon.pc = "start"
    /\ last_real_x' = cursor[1]
    /\ last_real_y' = cursor[2]
    /\ mon' = [mon EXCEPT !.pc = "poll"]
    /\ UNCHANGED <<config, injected, rx, status_line, acquisition, cursor, window, classification, filter_state,
                   stabilization_active, running, lock, now, cmd, stat, history>>

\* lines 226-239 and 256-257: one poll, up to the test that guards the lock
M_Poll ==
    /\ variant = "enhanced"
    /\ mon.pc = "poll"
    /\ IF ~running
       THEN /\ mon' = [mon EXCEPT !.pc = "done"]
            /\ UNCHANGED <<last_real, injected>>
       ELSE LET dx == cursor[1] - last_real_x
                dy == cursor[2] - last_real_y
            IN  /\ injected' = FALSE
                /\ last_real_x' = cursor[1]
                /\ last_real_y' = cursor[2]
                /\ IF actual_movement(dx, dy) /\ stabilization_active
                   THEN /\ nsamples < MaxSamples
                        /\ mon' = [pc |-> "lock", current_x |-> cursor[1],
                                   current_y |-> cursor[2], dx |-> dx, dy |-> dy]
                   ELSE mon' = mon
    /\ UNCHANGED <<config, rx, status_line, acquisition, cursor, window, classification, filter_state,
                   stabilization_active, running, lock, now, cmd, stat, history>>

\* line 240: with lock
M_Acquire ==
    /\ variant = "enhanced"
    /\ mon.pc = "lock"
    /\ lock = "free"
    /\ lock' = "monitor"
    /\ mon' = [mon EXCEPT !.pc = "cs"]
    /\ UNCHANGED <<config, injected, rx, status_line, acquisition, cursor, window, classification, filter_state,
                   last_real, stabilization_active, running, now, cmd, stat,
                   history>>

M_Body_always ==
    /\ variant = "enhanced"
    /\ mon.pc = "cs"
    /\ \E d \in {detect_tremor(mon.dx, mon.dy, mon.current_x, mon.current_y,
                                now + pace)} :
       \E s \in {apply_adaptive_smoothing(mon.current_x, mon.current_y,
                                          d.tremor_intensity)} :
           /\ now' = now + pace
           /\ delta_history' = d.delta_history
           /\ position_history' = d.position_history
           /\ timestamp_history' = d.timestamp_history
           /\ tremor_type' = d.tremor_type
           /\ tremor_intensity' = d.tremor_intensity
           /\ tremor_detected' = d.ret
           /\ fired' = d.fired
           /\ nsamples' = nsamples + 1
           /\ IF TRUE
              THEN /\ last_x' = s.last_x
                   /\ last_y' = s.last_y
                   /\ smooth' = Smoothed(mon.current_x, mon.current_y,
                                         d.tremor_intensity, s)
                   /\ cursor' = s.ret
                   /\ emit' = Emitted(s.ret)
                   /\ last_real_x' = s.ret[1]
                   /\ last_real_y' = s.ret[2]
                   /\ injected' = TRUE
              ELSE UNCHANGED <<filter_state, smooth, cursor, emit, last_real,
                               injected>>
    /\ lock' = "free"
    /\ mon' = [pc |-> "poll"] @@ NoLocals
    /\ UNCHANGED <<config, rx, status_line, acquisition, mouse_history, stabilization_active, running, cmd,
                   stat, ntoggles>>

\* lines 241-253: classify, smooth, inject, then leave the with block
M_Body ==
    /\ variant = "enhanced"
    /\ mon.pc = "cs"
    /\ \E d \in {detect_tremor(mon.dx, mon.dy, mon.current_x, mon.current_y,
                                now + pace)} :
       \E s \in {apply_adaptive_smoothing(mon.current_x, mon.current_y,
                                          d.tremor_intensity)} :
           /\ now' = now + pace
           /\ delta_history' = d.delta_history
           /\ position_history' = d.position_history
           /\ timestamp_history' = d.timestamp_history
           /\ tremor_type' = d.tremor_type
           /\ tremor_intensity' = d.tremor_intensity
           /\ tremor_detected' = d.ret
           /\ fired' = d.fired
           /\ nsamples' = nsamples + 1
           /\ IF d.ret
              THEN /\ last_x' = s.last_x
                   /\ last_y' = s.last_y
                   /\ smooth' = Smoothed(mon.current_x, mon.current_y,
                                         d.tremor_intensity, s)
                   /\ cursor' = s.ret
                   /\ emit' = Emitted(s.ret)
                   /\ last_real_x' = s.ret[1]
                   /\ last_real_y' = s.ret[2]
                   /\ injected' = TRUE
              ELSE UNCHANGED <<filter_state, smooth, cursor, emit, last_real,
                               injected>>
    /\ lock' = "free"
    /\ mon' = [pc |-> "poll"] @@ NoLocals
    /\ UNCHANGED <<config, rx, status_line, acquisition, mouse_history, stabilization_active, running, cmd,
                   stat, ntoggles>>

----------------------------------------------------------------------------
(* Joystick/mouse_filter.py: main() up to the listener, and on_move *)

\* main() lines 178-181: last_real_x, last_real_y are the globals; last_x,
\* last_y assigned there are locals of main
listener_main ==
    /\ variant = "listener"
    /\ mon.pc = "start"
    /\ last_real_x' = cursor[1]
    /\ last_real_y' = cursor[2]
    /\ mon' = [mon EXCEPT !.pc = "listen"]
    /\ acquisition' = "held"
    /\ UNCHANGED <<config, injected, rx, status_line, cursor, window, classification, filter_state,
                   stabilization_active, running, lock, now, cmd, stat, history>>

\* on_move(x, y), all of it inside with lock.  The pointer has moved to
\* <<x, y>>.  mouse_listener.start() on the listener that is running this
\* callback is outside src/: it either returns (restarted) or raises, and
\* then lines 123-126 are skipped and the listener ends
on_move ==
    /\ variant = "listener"
    /\ mon.pc = "listen"
    /\ acquisition = "held"
    /\ lock = "free"
    /\ \E x \in Targets, restarted \in BOOLEAN :
          LET y == cursor[2]
              dx == x - last_real_x
              dy == y - last_real_y
          IN  \E d \in {detect_tremor_simple(dx, dy)}, s \in {apply_smoothing(x, y)} :
              /\ x # cursor[1]
              /\ acquisition' = IF restarted THEN "held" ELSE "released"
              /\ IF actual_movement(dx, dy) /\ stabilization_active
                 THEN /\ nsamples < MaxSamples
                      /\ nsamples' = nsamples + 1
                      /\ mouse_history' = d.mouse_history
                      /\ tremor_detected' = d.ret
                      /\ IF d.ret
                         THEN /\ last_x' = s.last_x
                              /\ last_y' = s.last_y
                              /\ smooth' = Smoothed(x, y, Zero, s)
                              /\ cursor' = s.ret
                              /\ emit' = Emitted(s.ret)
                              /\ IF restarted
                                 THEN /\ last_real_x' = s.ret[1]
                                      /\ last_real_y' = s.ret[2]
                                      /\ mon' = mon
                                 ELSE /\ last_real_x' = x
                                      /\ last_real_y' = y
                                      /\ mon' = [mon EXCEPT !.pc = "done"]
                         ELSE /\ restarted
                              /\ cursor' = <<x, y>>
                              /\ last_real_x' = x
                              /\ last_real_y' = y
                              /\ UNCHANGED <<filter_state, smooth, emit, mon>>
                 ELSE /\ restarted
                      /\ cursor' = <<x, y>>
                      /\ last_real_x' = x
                      /\ last_real_y' = y
                      /\ UNCHANGED <<mouse_history, tremor_detected,
                                     filter_state, smooth, emit, mon, nsamples>>
    /\ UNCHANGED <<config, injected, rx, status_line, position_history, delta_history, timestamp_history,
                   tremor_type, tremor_intensity, fired, stabilization_active,
                   running, lock, now, cmd, stat, ntoggles>>

----------------------------------------------------------------------------
(* windows_mouse_filter_fixed.py: start_hook and mouse_callback, both run  *)
(* by the main thread; the callback is entered from the message loop       *)

\* start_hook() up to the message loop: lines 183-205
start_hook ==
    /\ variant = "hook"
    /\ mon.pc = "start"
    /\ last_real_x' = cursor[1]
    /\ last_real_y' = cursor[2]
    /\ acquisition' = "held"
    /\ mon' = [mon EXCEPT !.pc = "msgloop"]
    /\ UNCHANGED <<config, injected, rx, status_line, cursor, window, classification, filter_state,
                   stabilization_active, running, lock, now, cmd, stat, history>>

\* mouse_callback for a WM_MOUSEMOVE that took the pointer to <<x, y>>, up to
\* with lock (lines 143-158); stabilization_active is read at line 146,
\* before the lock is taken.  The event is a move by the user, or the move
\* that SetCursorPos of an earlier correction caused (x is then where the
\* pointer is).  get_cursor_pos() is taken to return the position of the
\* event
mouse_callback ==
    /\ variant = "hook"
    /\ mon.pc = "msgloop"
    /\ acquisition = "held"
    /\ \E x \in Targets \cup {cursor[1]} :
          LET y == cursor[2]
              dx == x - last_real_x
              dy == y - last_real_y
          IN  /\ x # cursor[1] \/ injected
              /\ injected' = FALSE
              /\ cursor' = <<x, y>>
              /\ IF stabilization_active
                 THEN /\ last_real_x' = x
                      /\ last_real_y' = y
                      /\ IF actual_movement(dx, dy)
                         THEN /\ nsamples < MaxSamples
                              /\ mon' = [pc |-> "lock", current_x |-> x,
                                         current_y |-> y, dx |-> dx, dy |-> dy]
                         ELSE mon' = mon
                 ELSE UNCHANGED <<last_real, mon>>
    /\ UNCHANGED <<config, rx, status_line, acquisition, window, classification, filter_state,
                   stabilization_active, running, lock, now, cmd, stat, history>>

\* line 159: with lock
H_Acquire ==
    /\ variant = "hook"
    /\ mon.pc = "lock"
    /\ lock = "free"
    /\ lock' = "monitor"
    /\ mon' = [mon EXCEPT !.pc = "cs"]
    /\ UNCHANGED <<config, injected, rx, status_line, acquisition, cursor, window, classification,
                   filter_state, last_real, stabilization_active, running, now,
                   cmd, stat, history>>

\* lines 160-176: classify, smooth, inject and return 1, or pass the event
\* on; last_real_x, last_real_y are not assigned after the injection
H_Body ==
    /\ variant = "hook"
    /\ mon.pc = "cs"
    /\ \E d \in {detect_tremor_simple(mon.dx, mon.dy)},
          s \in {apply_smoothing(mon.current_x, mon.current_y)} :
          /\ mouse_history' = d.mouse_history
          /\ tremor_detected' = d.ret
          /\ nsamples' = nsamples + 1
          /\ IF d.ret
             THEN /\ last_x' = s.last_x
                  /\ last_y' = s.last_y
                  /\ smooth' = Smoothed(mon.current_x, mon.current_y, Zero, s)
                  /\ cursor' = s.ret
                  /\ emit' = Emitted(s.ret)
                  /\ injected' = TRUE
             ELSE UNCHANGED <<filter_state, smooth, cursor, emit, injected>>
    /\ lock' = "free"
    /\ mon' = [pc |-> "msgloop"] @@ NoLocals
    /\ UNCHANGED <<config, rx, status_line, acquisition, position_history, delta_history,
                   timestamp_history, tremor_type, tremor_intensity, fired,
                   last_real, stabilization_active, running, now, cmd, stat,
                   ntoggles>>

----------------------------------------------------------------------------
(* tremor_filter.py process_data: one record read from the serial link *)

\* the lines the device sends: "M,<x>,<y>" movement records and one
\* information record
Records == {[kind |-> "M", x |-> v, y |-> 0] : v \in {-1, 1, 8}}
               \cup {[kind |-> "I", x |-> 0, y |-> 0]}

\* lines that are not records of the protocol: a movement record with a
\* non-numeric field ("M,a,b"), a truncated movement record ("M,5"), and a
\* line holding bytes that are not UTF-8
Malformed == {"M,a,b", "M,5", "\\xff"}

\* one turn of the while loop with a line waiting: lines 109-164
process_data ==
    /\ variant = "serial"
    /\ mon.pc = "read"
    /\ acquisition = "held"
    /\ lock = "free"
    /\ \/ /\ \E rec \in Records :
               IF rec.kind = "M"
               THEN \E d \in {detect_tremor_simple(rec.x, rec.y)},
                       s \in {apply_smoothing(rec.x, rec.y)} :
                    LET filtering == d.ret /\ stabilization_active
                        \* x, y after line 129
                        x == IF filtering THEN s.filtered[1] ELSE FromInt(rec.x)
                        y == IF filtering THEN s.filtered[2] ELSE FromInt(rec.y)
                        moved == <<cursor[1] + PyInt(x), cursor[2] + PyInt(y)>>
                    IN  /\ nsamples < MaxSamples
                        /\ nsamples' = nsamples + 1
                        /\ mouse_history' = d.mouse_history
                        /\ tremor_detected' = d.ret
                        /\ IF filtering
                           THEN /\ last_x' = s.last_x
                                /\ last_y' = s.last_y
                                /\ smooth' = Smoothed(rec.x, rec.y, Zero, s)
                                /\ emit' = Emitted(moved)
                           ELSE UNCHANGED <<filter_state, smooth, emit>>
                        \* pyautogui.moveRel(int(x), int(y)) unless both are zero
                        /\ cursor' = IF x # Zero \/ y # Zero THEN moved ELSE cursor
               ELSE UNCHANGED <<mouse_history, tremor_detected, filter_state,
                                smooth, emit, cursor, nsamples>>
          /\ UNCHANGED <<rx, mon>>
       \/ /\ \E line \in Malformed :
               \* int() raises ValueError, which line 135 reports with the
               \* line; a short record matches no branch of lines 117-164;
               \* decode() raises UnicodeDecodeError, caught at line 168
               \* outside the while loop
               /\ rx' = [line |-> line, logged |-> (line = "M,a,b")]
               /\ mon' = [mon EXCEPT !.pc = IF line = "\\xff" THEN "ended"
                                            ELSE "read"]
          /\ UNCHANGED <<mouse_history, tremor_detected, filter_state,
                         smooth, emit, cursor, nsamples>>
    /\ UNCHANGED <<config, position_history, delta_history, timestamp_history,
                   tremor_type, tremor_intensity, fired, last_real,
                   stabilization_active, running, lock, now, cmd, stat,
                   status_line, acquisition, injected, ntoggles>>

----------------------------------------------------------------------------
(* The command thread: input() in main(), 's' and 'q' *)

\* key == 's': toggle_stabilization() is entered and takes the lock
C_Toggle ==
    /\ cmd = "input"
    /\ ntoggles < MaxToggles
    /\ lock = "free"
    /\ lock' = "main"
    /\ cmd' = "toggle_cs"
    /\ ntoggles' = ntoggles + 1
    /\ UNCHANGED <<config, injected, rx, status_line, acquisition, cursor, window, classification, filter_state,
                   last_real, stabilization_active, running, now, mon, stat,
                   emit, smooth, nsamples>>

\* toggle_stabilization(): the body of with lock, and leaving it; the same
\* statement is lines 233-236 of tremor_filter.py
toggle_stabilization ==
    /\ cmd = "toggle_cs"
    /\ stabilization_active' = ~stabilization_active
    /\ lock' = "free"
    /\ cmd' = "input"
    /\ UNCHANGED <<config, injected, rx, status_line, acquisition, cursor, window, classification, filter_state,
                   last_real, running, now, mon, stat, history>>

\* key == 'q' in enhanced_tremor_filter.py: running = False; break
C_Quit ==
    /\ variant = "enhanced"
    /\ cmd = "input"
    /\ running' = FALSE
    /\ cmd' = "exit"
    /\ UNCHANGED <<config, injected, rx, status_line, acquisition, cursor, window, classification, filter_state,
                   last_real, stabilization_active, lock, now, mon, stat,
                   history>>

\* key_monitor of windows_mouse_filter_fixed.py, 'q': stop_hook() is
\* entered and tests hook_handle (line 220); with no hook installed it
\* returns and sys.exit(0) ends the key thread; the main thread stays in the
\* message loop of start_hook
hook_quit ==
    /\ variant = "hook"
    /\ cmd = "input"
    /\ cmd' = IF acquisition = "held" THEN "unhook" ELSE "exit"
    /\ UNCHANGED <<config, injected, rx, status_line, acquisition, cursor,
                   window, classification, filter_state, last_real,
                   stabilization_active, running, lock, now, mon, stat,
                   history>>

\* KeyboardInterrupt reaches the main thread in start_hook: except (lines
\* 301-303), then finally: stop_hook() is entered and tests hook_handle
main_interrupt ==
    /\ variant = "hook"
    /\ mon.pc = "msgloop"
    /\ mon' = [mon EXCEPT !.pc = IF acquisition = "held" THEN "unhook"
                                 ELSE "done"]
    /\ UNCHANGED <<config, injected, rx, status_line, acquisition, cursor,
                   window, classification, filter_state, last_real,
                   stabilization_active, running, lock, now, cmd, stat,
                   history>>

\* stop_hook() lines 221-226, in the thread that found hook_handle set:
\* UnhookWindowsHookEx(hook_handle) and hook_handle = None; the function
\* takes no lock
stop_hook ==
    /\ variant = "hook"
    /\ \/ /\ cmd = "unhook"
          /\ cmd' = "exit"
          /\ mon' = mon
       \/ /\ mon.pc = "unhook"
          /\ mon' = [mon EXCEPT !.pc = "done"]
          /\ cmd' = cmd
    /\ acquisition' = IF acquisition = "held" THEN "released"
                      ELSE "released twice"
    /\ UNCHANGED <<config, injected, rx, status_line, cursor, window,
                   classification, filter_state, last_real,
                   stabilization_active, running, lock, now, stat, history>>

\* key_monitor of Joystick/mouse_filter.py, 'q': mouse_listener.stop() and
\* sys.exit(0), which ends the key thread
listener_quit ==
    /\ variant = "listener"
    /\ cmd = "input"
    /\ mon.pc # "start"
    /\ acquisition' = "released"
    /\ cmd' = "exit"
    /\ UNCHANGED <<config, injected, rx, status_line, cursor, window, classification, filter_state,
                   last_real, stabilization_active, running, lock, now, mon,
                   stat, history>>

\* the listener thread ends once it is stopped; mouse_listener.join() in
\* main() then returns (lines 208-213)
listener_join ==
    /\ variant = "listener"
    /\ mon.pc = "listen"
    /\ acquisition = "released"
    /\ mon' = [mon EXCEPT !.pc = "done"]
    /\ UNCHANGED <<config, injected, rx, status_line, acquisition, cursor, window, classification,
                   filter_state, last_real, stabilization_active, running,
                   lock, now, cmd, stat, history>>

\* main() of tremor_filter.py, 'q': break, then finally: ser.close()
serial_quit ==
    /\ variant = "serial"
    /\ cmd = "input"
    /\ acquisition' = "released"
    /\ cmd' = "exit"
    /\ UNCHANGED <<config, injected, rx, status_line, cursor, window, classification, filter_state,
                   last_real, stabilization_active, running, lock, now, mon,
                   stat, history>>

----------------------------------------------------------------------------
(* enhanced_tremor_filter.py status_monitor, the status thread *)

\* the line written from the values read inside with lock
\* (lines 269-277): status is "TREMOR: <type> (<percent>%)" or "Normal
\* movement", freq_info is the frequency estimate or empty
StatusLine ==
    [status |-> IF tremor_detected
                THEN <<"TREMOR", tremor_type,
                       PyInt(RMul(tremor_intensity, FromInt(100)))>>
                ELSE <<"Normal movement">>,
     mode |-> IF stabilization_active THEN "ACTIVE" ELSE "DISABLED",
     freq_info |-> IF tremor_detected
                   THEN <<calculate_frequency(timestamp_history,
                                              cfg.FREQUENCY_WINDOW)>>
                   ELSE <<>>]

\* while running: with lock
S_Loop ==
    /\ variant = "enhanced"
    /\ stat = "loop"
    /\ IF running
       THEN /\ lock = "free"
            /\ lock' = "status"
            /\ stat' = "cs"
       ELSE /\ stat' = "done"
            /\ lock' = lock
    /\ UNCHANGED <<config, injected, rx, status_line, acquisition, cursor, window, classification, filter_state,
                   last_real, stabilization_active, running, now, mon, cmd,
                   history>>

S_Snapshot_holding ==
    /\ stat = "cs"
    /\ status_line' = StatusLine
    /\ stat' = "write"
    /\ UNCHANGED <<config, injected, rx, acquisition, cursor, window, classification,
                   filter_state, last_real, stabilization_active, running,
                   lock, now, mon, cmd, history>>

\* the reads inside with lock (lines 269-277), and leaving it
S_Snapshot ==
    /\ stat = "cs"
    /\ status_line' = StatusLine
    /\ lock' = "free"
    /\ stat' = "write"
    /\ UNCHANGED <<config, injected, rx, acquisition, cursor, window, classification,
                   filter_state, last_real, stabilization_active, running,
                   now, mon, cmd, history>>

\* sys.stdout.write, flush and time.sleep(0.2): lines 279-281
S_Write ==
    /\ stat = "write"
    /\ stat' = "loop"
    /\ UNCHANGED <<config, injected, rx, status_line, acquisition, cursor, window,
                   classification, filter_state, last_real,
                   stabilization_active, running, lock, now, mon, cmd,
                   history>>

----------------------------------------------------------------------------
Next ==
    \/ UserMove
    \/ M_Start
    \/ M_Poll
    \/ M_Acquire
    \/ M_Body
    \/ listener_main
    \/ on_move
    \/ start_hook
    \/ mouse_callback
    \/ H_Acquire
    \/ H_Body
    \/ process_data
    \/ C_Toggle
    \/ toggle_stabilization
    \/ C_Quit
    \/ hook_quit
    \/ main_interrupt
    \/ stop_hook
    \/ listener_quit
    \/ listener_join
    \/ serial_quit
    \/ S_Loop
    \/ S_Snapshot
    \/ S_Write

Spec == Init /\ [][Next]_vars

----------------------------------------------------------------------------
(* The enhanced classifier alone: detect_tremor applied to a sequence of   *)
(* samples, as mouse_monitor calls it                                      *)

\* the deltas and the time steps (in ticks) of the samples fed to it
Deltas == {1, -5, 8}
Gaps == {0, 1}

\* SAMPLE_SIZE as imported (the maxlen of the deques) and as main() sets it
\* from a larger --samples
ClassifierConfigs ==
    {[SAMPLE_SIZE |-> n, maxlen |-> WindowCap,
      FREQUENCY_WINDOW |-> FreqWindow, SHAKE_THRESHOLD |-> SHAKE_THRESHOLD,
      SMOOTHING_FACTOR |-> SMOOTHING_FACTOR, ADAPTIVE_SMOOTHING |-> TRUE] :
        n \in {WindowCap, WindowCap + 2}}

ClassifierInit ==
    /\ InitGlobals
    /\ variant = "enhanced"
    /\ cfg \in ClassifierConfigs
    /\ pace = 0
    /\ cursor = <<0, 0>>
    /\ mon = [pc |-> "classify"] @@ NoLocals
    /\ acquisition = "none"

\* tremor_detected = detect_tremor(dx, dy, current_x, current_y)
Classify ==
    /\ mon.pc = "classify"
    /\ nsamples < MaxSamples
    /\ \E dx \in Deltas, gap \in Gaps :
          LET current_x == cursor[1] + dx
              current_y == cursor[2]
          IN  \E d \in {detect_tremor(dx, 0, current_x, current_y, now + gap)} :
              /\ now' = now + gap
              /\ cursor' = <<current_x, current_y>>
              /\ mon' = [pc |-> "classify", current_x |-> current_x,
                         current_y |-> current_y, dx |-> dx, dy |-> 0]
              /\ delta_history' = d.delta_history
              /\ position_history' = d.position_history
              /\ timestamp_history' = d.timestamp_history
              /\ tremor_type' = d.tremor_type
              /\ tremor_intensity' = d.tremor_intensity
              /\ tremor_detected' = d.ret
              /\ fired' = d.fired
    /\ nsamples' = nsamples + 1
    /\ UNCHANGED <<config, injected, rx, status_line, acquisition, mouse_history, filter_state, last_real,
                   stabilization_active, running, lock, cmd, stat, emit,
                   smooth, ntoggles>>

ClassifierNext == Classify

ClassifierSpec == ClassifierInit /\ [][ClassifierNext]_vars

----------------------------------------------------------------------------
(* The smoothing filter alone: apply_adaptive_smoothing applied to raw     *)
(* positions, from the filter states and intensities a run can leave       *)

\* filter states <<last_x, last_y>> before the first call
FilterStates == {<<Zero, Zero>>, <<FromInt(4), FromInt(4)>>, <<<<-5, 2>>, <<7, 3>>>>}
\* the criteria of the detection before the call: 2, 3, 4 or 5 of the 5
FiredSets == {{CriteriaOrder[i] : i \in 1..k} : k \in 2..Len(CriteriaOrder)}
\* the tremor_intensity such a detection leaves
Intensities == {Rat(Cardinality(f), 5) : f \in FiredSets}
\* --smoothing: 0.4 (default) and 0.8
SmoothingFactors == {<<2, 5>>, <<4, 5>>}
\* raw positions <<x, y>> handed to the filter
RawInputs == {<<10, 10>>, <<4, 4>>, <<3, -7>>}

\* the globals the filter reads.  ADAPTIVE_SMOOTHING is True in
\* enhanced_tremor_filter.py (line 333 of main() assigns a local); the
\* filter without the adaptive branch is apply_smoothing of
\* simple_windows_filter.py, the same statements with the base factor
SmoothConfigs ==
    {[SAMPLE_SIZE |-> WindowCap, maxlen |-> WindowCap,
      FREQUENCY_WINDOW |-> FreqWindow, SHAKE_THRESHOLD |-> SHAKE_THRESHOLD,
      SMOOTHING_FACTOR |-> b, ADAPTIVE_SMOOTHING |-> a] :
        b \in SmoothingFactors, a \in BOOLEAN}

SmoothInit ==
    /\ injected = FALSE
    /\ rx = NoRecord
    /\ status_line = NoLine
    /\ variant = "enhanced"
    /\ cfg \in SmoothConfigs
    /\ pace = 0
    /\ cursor = <<0, 0>>
    /\ position_history = <<>>
    /\ delta_history = <<>>
    /\ timestamp_history = <<>>
    /\ mouse_history = <<>>
    /\ tremor_detected = TRUE
    /\ fired \in FiredSets
    /\ tremor_type = detected_types(fired)
    /\ tremor_intensity = Rat(Cardinality(fired), 5)
    /\ stabilization_active = TRUE
    /\ running = TRUE
    /\ lock = "free"
    /\ \E st \in FilterStates : last_x = st[1] /\ last_y = st[2]
    /\ last_real_x = 0
    /\ last_real_y = 0
    /\ now = 0
    /\ mon = [pc |-> "smooth"] @@ NoLocals
    /\ acquisition = "none"
    /\ cmd = "input"
    /\ stat = "loop"
    /\ emit = NoEmit
    /\ smooth = NoSmooth
    /\ nsamples = 0
    /\ ntoggles = 0

\* new_x, new_y = apply_adaptive_smoothing(current_x, current_y)
Smooth ==
    /\ mon.pc = "smooth"
    /\ smooth.n < MaxSmooth
    /\ \E raw \in RawInputs :
          \E s \in {apply_adaptive_smoothing(raw[1], raw[2], tremor_intensity)} :
              /\ last_x' = s.last_x
              /\ last_y' = s.last_y
              /\ smooth' = Smoothed(raw[1], raw[2], tremor_intensity, s)
              /\ cursor' = s.ret
    /\ UNCHANGED <<config, injected, rx, status_line, acquisition, window, classification, last_real,
                   stabilization_active, running, lock, now, mon, cmd, stat,
                   emit, nsamples, ntoggles>>

SmoothNext == Smooth

SmoothSpec == SmoothInit /\ [][SmoothNext]_vars

----------------------------------------------------------------------------
(* The enhanced classifier fed a patterned stream of samples: the same     *)
(* delta every time ("constant") or a delta that changes sign every time  *)
(* ("alternating")                                                         *)

\* the first delta of a stream
ScenarioDeltas == {1, 5, -5, 8}
ScenarioPatterns == {"constant", "alternating"}

\* SAMPLE_SIZE and the deques as imported (25 in the source), scaled so that
\* the gate SAMPLE_SIZE // 2 stays at or above the 3 positions
\* calculate_jitter asks for; FREQUENCY_WINDOW (10 in the source) at the
\* gate, and above it as it is when --samples is below 20
ScenarioConfigs ==
    {[SAMPLE_SIZE |-> WindowCap + 2, maxlen |-> WindowCap + 2,
      FREQUENCY_WINDOW |-> w, SHAKE_THRESHOLD |-> SHAKE_THRESHOLD,
      SMOOTHING_FACTOR |-> SMOOTHING_FACTOR, ADAPTIVE_SMOOTHING |-> TRUE] :
        w \in {FreqWindow, FreqWindow + 1}}
    \cup
    \* --samples so large that its half exceeds the maxlen of the deques
    \* (above 51 in the source): main() sets SAMPLE_SIZE, the deques stay
    {[SAMPLE_SIZE |-> 2 * WindowCap + 6, maxlen |-> WindowCap + 2,
      FREQUENCY_WINDOW |-> FreqWindow, SHAKE_THRESHOLD |-> SHAKE_THRESHOLD,
      SMOOTHING_FACTOR |-> SMOOTHING_FACTOR, ADAPTIVE_SMOOTHING |-> TRUE]}

ScenarioInit ==
    /\ InitGlobals
    /\ variant = "enhanced"
    /\ cfg \in ScenarioConfigs
    /\ pace = 0
    /\ cursor = <<0, 0>>
    /\ \E p \in ScenarioPatterns : mon = [pc |-> p] @@ NoLocals
    /\ acquisition = "none"

\* the delta the stream carries next, after the delta last
NextDelta(last) ==
    IF nsamples = 0 THEN ScenarioDeltas
    ELSE IF mon.pc = "constant" THEN {last} ELSE {-last}

\* tremor_detected = detect_tremor(dx, dy, current_x, current_y) on the next
\* sample of the stream
Feed ==
    /\ mon.pc \in ScenarioPatterns
    /\ nsamples < MaxSamples + WindowCap
    /\ \E dx \in NextDelta(mon.dx), gap \in Gaps :
          LET current_x == cursor[1] + dx
              current_y == cursor[2]
          IN  \E d \in {detect_tremor(dx, 0, current_x, current_y, now + gap)} :
              /\ now' = now + gap
              /\ cursor' = <<current_x, current_y>>
              /\ mon' = [pc |-> mon.pc, current_x |-> current_x,
                         current_y |-> current_y, dx |-> dx, dy |-> 0]
              /\ delta_history' = d.delta_history
              /\ position_history' = d.position_history
              /\ timestamp_history' = d.timestamp_history
              /\ tremor_type' = d.tremor_type
              /\ tremor_intensity' = d.tremor_intensity
              /\ tremor_detected' = d.ret
              /\ fired' = d.fired
    /\ nsamples' = nsamples + 1
    /\ UNCHANGED <<config, injected, rx, status_line, acquisition, mouse_history, filter_state, last_real,
                   stabilization_active, running, lock, cmd, stat, emit,
                   smooth, ntoggles>>

ScenarioNext == Feed

ScenarioSpec == ScenarioInit /\ [][ScenarioNext]_vars

----------------------------------------------------------------------------
(* Claims about the stabilization controller, checked under Spec *)

\* C1: under every interleaving of the toggle command with the sample path,
\* no correction is injected at a moment when stabilization is DISABLED:
\* every injection made so far was made with stabilization_active true.
C1_NoCorrectionWhileDisabled == emit.n > 0 => emit.active

\* C2: a toggle from DISABLED to ACTIVE leaves the filter state
\* (last_x, last_y) equal to the current raw pointer position.
C2_ReseedOnEnable ==
    [][(variant = "enhanced" /\ ~stabilization_active /\ stabilization_active')
          => (last_x' = FromInt(cursor'[1]) /\ last_y' = FromInt(cursor'[2]))]_vars

\* C3: while stabilization is DISABLED, a step of the sample path of any
\* variant (the poll, the listener callback, the serial record) leaves the
\* window, the filter state, the last real position and the last
\* classification unchanged.
C3_DisabledSampleChangesNothing ==
    [][(~stabilization_active /\ (M_Poll \/ M_Body \/ on_move \/ process_data))
          => UNCHANGED <<window, filter_state, last_real, classification>>]_vars

----------------------------------------------------------------------------
(* Claims about the enhanced classifier, checked under ClassifierSpec *)

\* the criteria the statistics of the present window satisfy, for the sample
\* pushed last
WindowCriteria ==
    LET last == delta_history[Len(delta_history)]
    IN  tremor_scores(delta_history, position_history, timestamp_history,
                      last[1], last[2])

\* the names in the reported tremor_type; "None" reports no cause
ReportedCauses ==
    IF tremor_type = <<"None">> THEN {}
    ELSE {tremor_type[i] : i \in 1..Len(tremor_type)}

\* C4: whenever the window holds fewer than SAMPLE_SIZE // 2 samples after
\* the push, the classifier has returned false, the reported intensity is 0
\* and no cause is reported.
C4_BelowHalfWindow ==
    (nsamples > 0 /\ Len(delta_history) < cfg.SAMPLE_SIZE \div 2)
        => /\ ~tremor_detected
           /\ tremor_intensity = Zero
           /\ ReportedCauses = {}

\* C4 witness: a window below the gate whose statistics satisfy two criteria
C4_Witness ==
    /\ nsamples > 0
    /\ Len(delta_history) < cfg.SAMPLE_SIZE \div 2
    /\ Cardinality(WindowCriteria) >= 2
    /\ ~tremor_detected

\* C5: once the window has reached SAMPLE_SIZE // 2 samples, detected is
\* true exactly when at least 2 of the 5 criteria hold, and the intensity
\* is the number of criteria that hold divided by 5, one of 0, 0.2, ..., 1.
C5_ScoreAndDetection ==
    (nsamples > 0 /\ Len(delta_history) >= cfg.SAMPLE_SIZE \div 2)
        => /\ fired = WindowCriteria
           /\ tremor_detected <=> (Cardinality(fired) >= 2)
           /\ \E k \in 0..5 : /\ k = Cardinality(fired)
                              /\ tremor_intensity[1] * 5 = k * tremor_intensity[2]

\* C5 witness: exactly two criteria hold and the sample is detected
C5_Witness ==
    /\ Len(delta_history) >= cfg.SAMPLE_SIZE \div 2
    /\ Cardinality(fired) = 2
    /\ tremor_detected
    /\ tremor_intensity = <<2, 5>>

\* C6 (as claimed): after every classification the reported causes are
\* exactly the criteria that fired, also when only one fired.
C6_CausesAreFiredCriteria == nsamples > 0 => ReportedCauses = fired

\* C6 (amended): after a classification that detected a tremor the reported
\* causes are exactly the criteria that fired, each once and in the order
\* of tremor_scores; after one that did not, the report is "None".
C6_CausesWhenDetected ==
    nsamples > 0 =>
        IF tremor_detected
        THEN /\ ReportedCauses = fired
             /\ Len(tremor_type) = Cardinality(fired)
             /\ \A i, j \in 1..Len(tremor_type) :
                   i < j => \E a, b \in 1..Len(CriteriaOrder) :
                               /\ a < b
                               /\ CriteriaOrder[a] = tremor_type[i]
                               /\ CriteriaOrder[b] = tremor_type[j]
        ELSE tremor_type = <<"None">>

\* C6 witness: one criterion fired, nothing detected, "None" reported
C6_Witness ==
    /\ nsamples > 0
    /\ Cardinality(fired) = 1
    /\ ~tremor_detected
    /\ tremor_type = <<"None">>

\* C7: the three histories have equal length, never more than the capacity
\* of the deques; a push onto a full window evicts the oldest entry of each
\* and keeps the others in order, a push onto a window that is not full
\* keeps them all; the pushed sample is the newest entry.
C7_WindowInvariant ==
    /\ Len(delta_history) = Len(position_history)
    /\ Len(delta_history) = Len(timestamp_history)
    /\ Len(delta_history) <= cfg.maxlen

C7_PushStep ==
    nsamples' = nsamples + 1 =>
        LET n == Len(delta_history)
            kept(q) == IF n = cfg.maxlen THEN SubSeq(q, 2, n) ELSE q
            m == Len(kept(delta_history))
        IN  /\ Len(delta_history') = m + 1
            /\ SubSeq(delta_history', 1, m) = kept(delta_history)
            /\ SubSeq(position_history', 1, m) = kept(position_history)
            /\ SubSeq(timestamp_history', 1, m) = kept(timestamp_history)
            /\ delta_history'[m + 1] = <<mon'.dx, mon'.dy>>
            /\ position_history'[m + 1] = <<mon'.current_x, mon'.current_y>>
            /\ timestamp_history'[m + 1] = now'

\* C7, the invariant and the push step together
C7_FifoWindow == []C7_WindowInvariant /\ [][C7_PushStep]_vars

\* C7 witness: more samples pushed than the window holds, and it is full
C7_Witness ==
    /\ nsamples > cfg.maxlen
    /\ Len(delta_history) = cfg.maxlen
    /\ Len(timestamp_history) = cfg.maxlen

----------------------------------------------------------------------------
(* Claims about the smoothing filter, checked under SmoothSpec *)

\* factor * raw + (1 - factor) * last for one coordinate, written out
BlendOf(f, v, last) == RAdd(RMul(f, <<v, 1>>), RMul(RSub(<<1, 1>>, f), last))

\* k is the rational r with its fraction dropped (towards zero)
IsTruncation(k, r) ==
    IF r[1] >= 0 THEN k * r[2] <= r[1] /\ r[1] < (k + 1) * r[2]
    ELSE (k - 1) * r[2] < r[1] /\ r[1] <= k * r[2]

\* k is an integer nearest to the rational r
IsNearest(k, r) == 2 * Abs(k * r[2] - r[1]) <= r[2]

\* C8: the blend factor of a call is the base factor when adaptive mode is
\* off, and the larger of 0.1 and base * (1 - intensity) when it is on: then
\* it is at least 0.1 and a higher intensity never gives a higher factor;
\* base 0.4, intensity 0.8, last (0,0), input (10,10): factor 0.1, output (1,1).
C8_BlendFactor ==
    smooth.n > 0 =>
        LET base == cfg.SMOOTHING_FACTOR
            f == smooth.factor
            scaled == RMul(base, RSub(<<1, 1>>, smooth.intensity))
        IN  /\ ~cfg.ADAPTIVE_SMOOTHING => f = base
            /\ cfg.ADAPTIVE_SMOOTHING =>
                  /\ f = IF RLess(scaled, <<1, 10>>) THEN <<1, 10>> ELSE scaled
                  /\ RLeq(<<1, 10>>, f)
                  /\ \A j \in Intensities :
                        RLeq(smooth.intensity, j) => RLeq(adaptive_factor(j), f)
            /\ ( /\ cfg.ADAPTIVE_SMOOTHING
                 /\ base = <<2, 5>>
                 /\ smooth.intensity = <<4, 5>>
                 /\ smooth.prev = <<Zero, Zero>>
                 /\ smooth.raw = <<10, 10>> )
                  => (f = <<1, 10>> /\ smooth.ret = <<1, 1>>)

\* C8 witness: the example call, where the floor of 0.1 decides the factor
C8_Witness ==
    /\ smooth.n > 0
    /\ cfg.ADAPTIVE_SMOOTHING
    /\ cfg.SMOOTHING_FACTOR = <<2, 5>>
    /\ smooth.intensity = <<4, 5>>
    /\ smooth.prev = <<Zero, Zero>>
    /\ smooth.raw = <<10, 10>>
    /\ smooth.factor = <<1, 10>>

\* C9 (as claimed): a call returns factor * raw + (1 - factor) * last per
\* coordinate and leaves the filter state equal to what it returned.
C9_ReturnsBlendAndStoresIt ==
    smooth.n > 0 =>
        /\ <<smooth.ret[1], 1>> = BlendOf(smooth.factor, smooth.raw[1], smooth.prev[1])
        /\ <<smooth.ret[2], 1>> = BlendOf(smooth.factor, smooth.raw[2], smooth.prev[2])
        /\ last_x = <<smooth.ret[1], 1>>
        /\ last_y = <<smooth.ret[2], 1>>

C9_SmoothStep ==
    smooth'.n = smooth.n + 1 =>
        LET f == smooth'.factor
            raw == smooth'.raw
            bx == BlendOf(f, raw[1], last_x)
            by == BlendOf(f, raw[2], last_y)
        IN  /\ last_x' = bx
            /\ last_y' = by
            /\ IsTruncation(smooth'.ret[1], bx)
            /\ IsTruncation(smooth'.ret[2], by)
            /\ ( /\ ~cfg.ADAPTIVE_SMOOTHING
                 /\ cfg.SMOOTHING_FACTOR = <<2, 5>>
                 /\ <<last_x, last_y>> = <<Zero, Zero>>
                 /\ raw = <<10, 10>> )
                  => /\ smooth'.ret = <<4, 4>>
                     /\ <<last_x', last_y'>> = <<<<4, 1>>, <<4, 1>>>>

\* C9 (amended): a call computes factor * raw + (1 - factor) * last per
\* coordinate, leaves the filter state equal to that unrounded value, so the
\* next call blends against it, and returns it with the fraction dropped by
\* int(); adaptive off, factor 0.4, last (0,0), input (10,10): returns (4,4)
\* and leaves the state at (4,4).
C9_StoresBlendReturnsTruncation == [][C9_SmoothStep]_vars

\* C9 witness: a second call that blended against an unrounded state and
\* returned something else than the state it left
C9_Witness ==
    /\ smooth.n = 2
    /\ smooth.prev[1][2] # 1
    /\ last_x # <<smooth.ret[1], 1>>
    /\ last_x = BlendOf(smooth.factor, smooth.raw[1], smooth.prev[1])

\* C10: the coordinates a call returns are the integers nearest to the
\* unrounded filtered values, and the filter state keeps the unrounded
\* values.
C10_RoundedToNearest ==
    smooth.n > 0 =>
        /\ last_x = BlendOf(smooth.factor, smooth.raw[1], smooth.prev[1])
        /\ last_y = BlendOf(smooth.factor, smooth.raw[2], smooth.prev[2])
        /\ IsNearest(smooth.ret[1], last_x)
        /\ IsNearest(smooth.ret[2], last_y)

----------------------------------------------------------------------------
(* Claims about patterned sample streams, checked under ScenarioSpec *)

\* C11: while every sample of the stream carries the same nonzero delta,
\* the direction-change ratio of the window is 0, neither the Directional
\* nor the Variance criterion holds, and detected is false after every
\* sample.
C11_ConstantDrift ==
    (mon.pc = "constant" /\ nsamples > 0) =>
        /\ \A i \in 1..Len(delta_history) : delta_history[i] = <<mon.dx, 0>>
        /\ direction_change_ratio(delta_history) = Zero
        /\ "Directional" \notin WindowCriteria
        /\ "Variance" \notin WindowCriteria
        /\ "Directional" \notin fired
        /\ "Variance" \notin fired
        /\ ~tremor_detected

\* C11 witness: a constant stream past the gate on which the Frequency
\* criterion holds, and nothing is detected
C11_Witness ==
    /\ mon.pc = "constant"
    /\ Len(delta_history) >= cfg.SAMPLE_SIZE \div 2
    /\ nsamples > cfg.maxlen
    /\ fired = {"Frequency"}
    /\ ~tremor_detected

\* C12: on a stream whose delta alternates between (+5, 0) and (-5, 0) the
\* direction-change ratio over the evaluated pairs is 1, and once the
\* window holds SAMPLE_SIZE // 2 samples the Directional cause is reported
\* and detected is true.
C12_AlternatingStream ==
    (mon.pc = "alternating" /\ mon.dx \in {5, -5} /\ nsamples > 0) =>
        /\ Len(delta_history) >= 2 => direction_change_ratio(delta_history) = One
        /\ Len(delta_history) >= cfg.SAMPLE_SIZE \div 2 =>
              /\ "Directional" \in ReportedCauses
              /\ tremor_detected

\* C12 witness: an alternating +5/-5 stream that wrapped the window, with
\* Directional reported
C12_Witness ==
    /\ mon.pc = "alternating"
    /\ mon.dx = 5
    /\ nsamples > cfg.maxlen
    /\ "Directional" \in ReportedCauses
    /\ tremor_detected

----------------------------------------------------------------------------
(* Shutdown *)

\* main() has returned: in the polling and serial programs the command loop
\* is the main thread, in the listener and hook programs the main thread is
\* the one that waits for the acquisition to end
Terminated ==
    IF variant \in {"enhanced", "serial"} THEN cmd = "exit" ELSE mon.pc = "done"

\* C13: once 'q' has been handled, the program has terminated with the hook,
\* listener or serial port released, or a step that leads there can still
\* be taken; no thread is left waiting for ever
C13_QuitTerminates ==
    cmd = "exit" => \/ Terminated /\ acquisition # "held"
                    \/ ENABLED (listener_join \/ start_hook)

----------------------------------------------------------------------------
(* Malformed serial records *)

\* C14: every malformed record read from the serial link is reported with
\* the record, leaves the window and the filter state as they were, and
\* leaves the processing loop reading
C14_MalformedDiscarded ==
    [][rx' # rx =>
          /\ rx'.line \in Malformed
          /\ rx'.logged
          /\ mouse_history' = mouse_history
          /\ filter_state' = filter_state
          /\ mon'.pc = "read"]_vars

----------------------------------------------------------------------------
(* The status monitor *)

\* the state the classifier, the filter and the commands work on
core == <<cfg, cursor, window, classification, filter_state, last_real,
          stabilization_active, running, history>>

\* C15: a step of the status monitor changes nothing of the window, the
\* classification, the filter state, the reference position, the mode or the
\* configuration, and the status thread holds the lock exactly while it
\* reads its snapshot: not while it writes the line or sleeps
C15_StatusFrame ==
    /\ [](lock = "status" <=> stat = "cs")
    /\ [][stat' # stat => core' = core]_vars

C15_Witness ==
    /\ stat = "write"
    /\ Len(status_line.status) = 3
    /\ status_line.mode = "ACTIVE"
    /\ lock = "monitor"

----------------------------------------------------------------------------
(* The reference position *)

\* the raw position of the sample a step has just classified
RawPosition ==
    IF variant = "listener" THEN cursor' ELSE <<mon.current_x, mon.current_y>>

\* C16: a step that classifies a sample while stabilization is ACTIVE leaves
\* the reference position at the position it injected, or at the raw
\* position of the sample when it injected none
C16_ReferenceIsEmitted ==
    [][(/\ nsamples' = nsamples + 1
        /\ variant \in {"enhanced", "listener", "hook"}
        /\ stabilization_active)
          => last_real' = IF emit'.n # emit.n THEN emit'.pos
                          ELSE RawPosition]_vars

----------------------------------------------------------------------------
(* Corrections *)

\* where the pointer is after a sample that was passed through: where the
\* host had put it (polling, hook), at the raw position reported to the
\* callback (listener), moved by the raw delta of the record (serial)
PassedThrough ==
    CASE variant \in {"enhanced", "hook"} -> cursor
      [] variant = "listener" -> <<last_real_x', last_real_y'>>
      [] variant = "serial" ->
            LET m == mouse_history'[Len(mouse_history')]
            IN  <<cursor[1] + m[1], cursor[2] + m[2]>>

\* C17: a step that classifies a sample while stabilization is ACTIVE sets
\* the pointer position exactly when the classifier returned detected for
\* that sample; otherwise the raw motion is left as it is
C17_CorrectionIffDetected ==
    [][(nsamples' = nsamples + 1 /\ stabilization_active)
          => /\ emit'.n = emit.n + 1 <=> tremor_detected'
             /\ emit'.n = emit.n \/ emit'.n = emit.n + 1
             /\ ~tremor_detected' => /\ emit' = emit
                                     /\ cursor' = PassedThrough
                                     /\ filter_state' = filter_state]_vars

C17_Witness ==
    /\ variant = "enhanced"
    /\ stabilization_active
    /\ emit.n >= 1
    /\ emit.active
    /\ nsamples > emit.n + 1
    /\ ~tremor_detected
    /\ mon.pc = "poll"

----------------------------------------------------------------------------
(* Samples without motion *)

\* the polling thread or the hook, between two samples, observes the
\* pointer at the reference position (the listener is never called with
\* that position: it leaves the reference where the pointer is)
ObservesZeroDelta ==
    /\ mon.pc \in {"poll", "msgloop"}
    /\ cursor' = last_real

\* C18: a sample whose delta from the reference position is (0, 0) is
\* ignored: it never reaches the classifier or a window, and the step that
\* observes it changes neither the windows, the classification, the filter
\* state nor the injections
C18_ZeroDeltaIgnored ==
    /\ [](variant # "serial" =>
             /\ \A i \in 1..Len(delta_history) : delta_history[i] # <<0, 0>>
             /\ \A i \in 1..Len(mouse_history) : mouse_history[i] # <<0, 0>>
             /\ mon.pc \in {"lock", "cs"} => <<mon.dx, mon.dy>> # <<0, 0>>)
    /\ [][ObservesZeroDelta =>
             /\ UNCHANGED <<window, classification, filter_state, emit,
                            smooth, nsamples>>
             /\ mon'.pc \notin {"lock", "cs"}]_vars

\* the hook program after its second sample was corrected and the pointer
\* was then brought back to the reference position, which the correction
\* had left at the raw position: that event had delta (0, 0)
C18_Witness ==
    /\ variant = "hook"
    /\ mon.pc = "msgloop"
    /\ nsamples = 2
    /\ emit.n = 1
    /\ emit.pos # cursor
    /\ cursor = last_real
    /\ Len(mouse_history) = 2

----------------------------------------------------------------------------
(* Toggles and samples in flight *)

\* the sampling thread has tested stabilization_active for a sample and has
\* not yet finished handling it
SampleInFlight == mon.pc \in {"lock", "cs"}

----------------------------------------------------------------------------
(* Corrections are not motion *)

\* the sampling thread observes the pointer where the last correction put
\* it, nothing else having moved it since
ObservesOwnCorrection == injected /\ ~injected' /\ cursor' = cursor

\* C20: observing the pointer at the position of the program's own
\* correction admits no sample, pushes nothing into a window and injects
\* nothing
C20_OwnCorrectionIgnored ==
    [][ObservesOwnCorrection =>
          /\ UNCHANGED <<window, classification, filter_state, emit, nsamples>>
          /\ mon'.pc \in {mon.pc, "done"}]_vars

----------------------------------------------------------------------------
(* The frequency estimate *)

\* the intervals between the most recent min(FREQUENCY_WINDOW, available)
\* time stamps
RecentIntervals ==
    LET ts == timestamp_history
        k == IF Len(ts) < cfg.FREQUENCY_WINDOW THEN Len(ts)
             ELSE cfg.FREQUENCY_WINDOW
        recent == SubSeq(ts, Len(ts) - k + 1, Len(ts))
    IN  [i \in 1..(Len(recent) - 1) |-> recent[i + 1] - recent[i]]

\* C21: the estimate is the inverse of the mean of these intervals (in Hz,
\* the time stamps being ticks of 1/10 s), and it is 0 only if there are
\* fewer than 2 of them or their mean is 0
C21_FrequencyOverAvailable ==
    LET estimate == calculate_frequency(timestamp_history, cfg.FREQUENCY_WINDOW)
        n == Len(RecentIntervals)
        total == SeqSum(RecentIntervals)
    IN  /\ (n >= 2 /\ total # 0) => estimate = Rat(10 * n, total)
        /\ estimate = Zero => (n < 2 \/ total = 0)

----------------------------------------------------------------------------
(* Releasing the hook *)

\* C22: however often and from whichever threads stop_hook is invoked, the
\* hook is released at most once
C22_ReleasedAtMostOnce == acquisition # "released twice"

----------------------------------------------------------------------------
(* The filter state when monitoring starts *)

\* C23: the step that starts the monitoring leaves last_x, last_y, which
\* the smoothing function reads, at the position of the pointer
C23_FilterSeededAtStart ==
    [][(mon.pc = "start" /\ mon'.pc # "start")
          => <<last_x', last_y'>> = <<FromInt(cursor[1]), FromInt(cursor[2])>>]_vars

----------------------------------------------------------------------------
(* The capacity of the windows and --samples *)

\* C24: the windows hold as many samples as were pushed, up to the
\* configured SAMPLE_SIZE, so that once SAMPLE_SIZE // 2 samples have been
\* pushed the classifier is past its not-enough-data return
C24_CapacityIsSampleSize ==
    /\ Len(delta_history) = IF nsamples < cfg.SAMPLE_SIZE THEN nsamples
                            ELSE cfg.SAMPLE_SIZE
    /\ nsamples >= cfg.SAMPLE_SIZE \div 2 => ~not_enough_data(Len(delta_history))

----------------------------------------------------------------------------
(* What the status reader sees *)

\* the flag, the label and the intensity are those of one classification,
\* the one that found the criteria in fired
OneClassification(detected, type, intensity) ==
    /\ intensity = Rat(Cardinality(fired), 5)
    /\ detected <=> type # <<"None">>
    /\ detected <=> RLeq(Rat(2, 5), intensity)
    /\ detected => type = detected_types(fired)

\* C25: while the status thread is inside its critical section the globals
\* it reads are those of one classification, and so is the line it has
\* built from them
C25_SnapshotOfOneSample ==
    /\ stat = "cs" =>
          OneClassification(tremor_detected, tremor_type, tremor_intensity)
    /\ (stat = "write" /\ Len(status_line.status) = 3) =>
          /\ status_line.status[2] # <<"None">>
          /\ status_line.status[3] >= 40
          /\ status_line.freq_info # <<>>
    /\ (stat = "write" /\ Len(status_line.status) = 1) =>
          status_line.freq_info = <<>>

\* a snapshot of a detection, taken after an earlier sample had been
\* classified as no tremor
C25_Witness ==
    /\ stat = "cs"
    /\ tremor_detected
    /\ Cardinality(fired) >= 2
    /\ nsamples > emit.n + 1

====
